---- MODULE Spec2Model ----
(***************************************************************************)
(* A model of the two native search routines of fast_diff_match_patch:     *)
(*   diff_bisect  (ext/fast_diff_match_patch/diff.c)                       *)
(*   match_bitap  (ext/fast_diff_match_patch/match.c)                      *)
(* Sequences of comparable units are TLA+ sequences (1-based); the C code  *)
(* indexes from 0, so chars[i] of the source is text[i + 1] here.          *)
(***************************************************************************)
EXTENDS Integers, Sequences, FiniteSets, TLC

\* ------------------------------------------------------------------ bounds
MaxLen == 4
NumUnits == 2
TimeSpan == 1

\* The integer behind Ruby's nil VALUE on the build (8 on a 64-bit flonum
\* build); diff.c and match.c use it as the "absent" number.
Qnil == 8

Units == 1..NumUnits
Texts == UNION {[1..n -> Units] : n \in 0..MaxLen}

\* bisect("cat", "cats"): c = 1, a = 2, t = 3, s = 4
Cat == <<1, 2, 3>>
Cats == <<1, 2, 3, 4>>
TextPairs == (Texts \X Texts) \cup {<<Cat, Cats>>}

Times == (Qnil - TimeSpan)..(Qnil + TimeSpan)
\* deadline argument: nil, or an object whose to_i is a time
NilDeadline == [nil |-> TRUE, to_i |-> 0]
TimeDeadline(t) == [nil |-> FALSE, to_i |-> t]
Deadlines == {NilDeadline} \cup {TimeDeadline(t) : t \in Times}

\* What a read outside an object can return: the value the code stored
\* there last (0 is the only value diff_bisect stores outside v1 and v2),
\* or whatever else the build keeps at that address.
Indeterminate == -1..2

VARIABLES
  \* ---- diff_bisect
  text1, text2, deadline,   \* the arguments
  clock,                    \* the host clock (Time.now.to_i)
  called_at,                \* the clock when diff_bisect was called
  pc,                       \* position in diff_bisect
  d, k1, k2,                \* loop counters
  v1, v2,                   \* the diagonal vectors, indices 0..v_length-1
  k1start, k1end, k2start, k2end,
  result,                   \* what diff_bisect returned
  polls,                    \* number of time_now() calls of this call
  oob,                      \* accesses of v1, v2 outside 0..v_length-1
  \* ---- the recursion over diff_bisect
  rtop, work, total, rpc,
  \* ---- match_bitap
  self,                     \* @match_threshold, @match_distance, @match_max_bits
  dmp_match_threshold, dmp_match_distance, dmp_max_bits,   \* the globals
  text, pattern, loc,       \* the arguments
  mpc,                      \* position in match_bitap
  alpha,                    \* the pattern hash table
  score_threshold, best_loc, bin_max, bin_mid,
  i, j, start, finish,
  rd, last_rd,
  mresult,                  \* what match_bitap returned or raised
  toob,                     \* indices of text.chars read outside the text
  \* ---- a second match_bitap call, running beside the first
  oself,                    \* its instance's settings
  opc                       \* its position

bvars == <<text1, text2, deadline, clock, called_at, pc, d, k1, k2, v1, v2,
           k1start, k1end, k2start, k2end, result, polls, oob>>
rvars == <<rtop, work, total, rpc>>
gvars == <<dmp_match_threshold, dmp_match_distance, dmp_max_bits>>
mvars == <<self, gvars, text, pattern, loc, mpc, alpha, score_threshold,
           best_loc, bin_max, bin_mid, i, j, start, finish, rd, last_rd,
           mresult, toob>>
\* the first call's own state: everything of match_bitap but the globals
lvars == <<self, text, pattern, loc, mpc, alpha, score_threshold, best_loc,
           bin_max, bin_mid, i, j, start, finish, rd, last_rd, mresult, toob>>
ovars == <<oself, opc>>
vars == <<bvars, rvars, mvars, ovars>>

\* ------------------------------------------------------- diff_bisect
\* C's % (truncating toward zero)
CRem(a, b) == IF a >= 0 THEN a % b ELSE -((-a) % b)

text1_length == Len(text1)
text2_length == Len(text2)
delta == text1_length - text2_length
max_d == (text1_length + text2_length + 1) \div 2
v_offset == max_d
v_length == 2 * max_d
front == CRem(delta, 2) # 0

\* deadline == Qnil ? Qnil : rb_to_i(deadline)
deadline_l == IF deadline.nil THEN Qnil ELSE deadline.to_i

InVec(idx) == idx >= 0 /\ idx < v_length

\* memset(v, -1, ...); v[v_offset + 1] = 0;
InitVec == [q \in 0..(v_length - 1) |-> IF q = v_offset + 1 THEN 0 ELSE -1]

\* the values a read of v[idx] can give
VecRead(v, idx) == IF InVec(idx) THEN {v[idx]} ELSE Indeterminate

\* v[idx] = x
VecWrite(v, idx, x) == IF InVec(idx) THEN [v EXCEPT ![idx] = x] ELSE v

OobAt(name, idx) == IF InVec(idx) THEN {} ELSE {<<name, idx>>}

NoResult == [kind |-> "none", x |-> 0, y |-> 0, d |-> 0, half |-> "none"]
SplitResult(x, y, half) ==
  [kind |-> "split", x |-> x, y |-> y, d |-> d, half |-> half]
NoSplitResult ==
  [kind |-> "nosplit", x |-> 0, y |-> 0, d |-> d, half |-> "none"]

\* DMP_CMP(dmp_text1.chars[p], dmp_text2.chars[q]); an index outside a
\* sequence reads memory that is not the sequence's
CmpSet(p, q) ==
  IF p >= 0 /\ p < text1_length /\ q >= 0 /\ q < text2_length
  THEN {text1[p + 1] = text2[q + 1]}
  ELSE BOOLEAN

\* the forward snake: the x1 values the while loop can end with
RECURSIVE FwdSnake(_, _)
FwdSnake(x, y) ==
  IF x < text1_length /\ y < text2_length
  THEN UNION {IF eq THEN FwdSnake(x + 1, y + 1) ELSE {x} : eq \in CmpSet(x, y)}
  ELSE {x}

\* the backward snake, reading both sequences from their ends
RECURSIVE BwdSnake(_, _)
BwdSnake(x, y) ==
  IF x < text1_length /\ y < text2_length
  THEN UNION {IF eq THEN BwdSnake(x + 1, y + 1) ELSE {x}
               : eq \in CmpSet(text1_length - x - 1, text2_length - y - 1)}
  ELSE {x}

\* the choice of the neighbour diagonal: lo = v[k_offset - 1],
\* hi = v[k_offset + 1]
StartX(k, lo, hi) ==
  IF k = -d \/ (k # d /\ lo < hi) THEN hi ELSE lo + 1

\* FrontOverlap with x1 > x2 for x1 >= x2
FrontOverlapStrict(x1, koff) ==
  /\ koff >= 0 /\ koff < v_length /\ v2[koff] # -1
  /\ x1 > text1_length - v2[koff]

\* the forward cross-check against v2
FrontOverlap(x1, koff) ==
  /\ koff >= 0 /\ koff < v_length /\ v2[koff] # -1
  /\ x1 >= text1_length - v2[koff]

\* the backward cross-check against v1 (x2 already stored in v2)
BackOverlap(x2, koff) ==
  /\ koff >= 0 /\ koff < v_length /\ v1[koff] # -1
  /\ v1[koff] >= text1_length - x2

\* lines 31-61: conversions, the vectors, their first entries
BisectEnter ==
  /\ pc = "start"
  /\ v1' = InitVec
  /\ v2' = InitVec
  /\ oob' = oob \cup OobAt("v1", v_offset + 1) \cup OobAt("v2", v_offset + 1)
  /\ d' = 0
  /\ pc' = "depth"
  /\ UNCHANGED <<text1, text2, deadline, called_at, clock, k1, k2, k1start, k1end,
                 k2start, k2end, result, polls>>
  /\ UNCHANGED <<rvars, mvars, ovars>>

\* lines 63-68: the loop test, then the deadline test of this depth
DepthTest ==
  /\ pc = "depth"
  /\ IF d < max_d
     THEN IF deadline_l # Qnil
          THEN \E now \in {t \in Times : t >= clock} :
                 /\ clock' = now
                 /\ polls' = polls + 1
                 /\ IF now >= deadline_l
                    THEN pc' = "fallback" /\ k1' = k1
                    ELSE pc' = "fwd" /\ k1' = -d + k1start
          ELSE /\ pc' = "fwd"
               /\ k1' = -d + k1start
               /\ UNCHANGED <<clock, polls>>
     ELSE /\ pc' = "fallback"
          /\ UNCHANGED <<clock, polls, k1>>
  /\ UNCHANGED <<text1, text2, deadline, called_at, d, k2, v1, v2, k1start, k1end,
                 k2start, k2end, result, oob>>
  /\ UNCHANGED <<rvars, mvars, ovars>>

\* lines 70-107: one diagonal of the forward half, or the end of the loop
ForwardStep ==
  /\ pc = "fwd"
  /\ IF k1 <= d - k1end
     THEN LET k1_offset == v_offset + k1 IN
          \E lo \in VecRead(v1, k1_offset - 1), hi \in VecRead(v1, k1_offset + 1) :
          \E x1 \in FwdSnake(StartX(k1, lo, hi), StartX(k1, lo, hi) - k1) :
            LET y1 == x1 - k1
                k2_offset == v_offset + delta - k1
            IN /\ v1' = VecWrite(v1, k1_offset, x1)
               /\ oob' = oob \cup OobAt("v1", k1_offset)
                             \cup (IF k1 = -d \/ k1 # d
                                   THEN OobAt("v1", k1_offset + 1) ELSE {})
                             \cup (IF k1 # -d
                                   THEN OobAt("v1", k1_offset - 1) ELSE {})
               /\ IF x1 > text1_length
                  THEN /\ k1end' = k1end + 2
                       /\ k1' = k1 + 2
                       /\ UNCHANGED <<k1start, pc, result>>
                  ELSE IF y1 > text2_length
                  THEN /\ k1start' = k1start + 2
                       /\ k1' = k1 + 2
                       /\ UNCHANGED <<k1end, pc, result>>
                  ELSE IF front /\ FrontOverlap(x1, k2_offset)
                  THEN /\ result' = SplitResult(x1, y1, "forward")
                       /\ pc' = "done"
                       /\ UNCHANGED <<k1, k1start, k1end>>
                  ELSE /\ k1' = k1 + 2
                       /\ UNCHANGED <<k1start, k1end, pc, result>>
               /\ k2' = k2
     ELSE /\ pc' = "bwd"
          /\ k2' = -d + k2start
          /\ UNCHANGED <<k1, v1, k1start, k1end, result, oob>>
  /\ UNCHANGED <<text1, text2, deadline, called_at, clock, d, v2, k2start, k2end, polls>>
  /\ UNCHANGED <<rvars, mvars, ovars>>

\* lines 109-149: one diagonal of the backward half, or the end of the
\* loop and d++
BackwardStep ==
  /\ pc = "bwd"
  /\ IF k2 <= d - k2end
     THEN LET k2_offset == v_offset + k2 IN
          \E lo \in VecRead(v2, k2_offset - 1), hi \in VecRead(v2, k2_offset + 1) :
          \E x2 \in BwdSnake(StartX(k2, lo, hi), StartX(k2, lo, hi) - k2) :
            LET y2 == x2 - k2
                k1_offset == v_offset + delta - k2
            IN /\ v2' = VecWrite(v2, k2_offset, x2)
               /\ oob' = oob \cup OobAt("v2", k2_offset)
                             \cup (IF k2 = -d \/ k2 # d
                                   THEN OobAt("v2", k2_offset + 1) ELSE {})
                             \cup (IF k2 # -d
                                   THEN OobAt("v2", k2_offset - 1) ELSE {})
               /\ IF x2 > text1_length
                  THEN /\ k2end' = k2end + 2
                       /\ k2' = k2 + 2
                       /\ UNCHANGED <<k2start, pc, result, d>>
                  ELSE IF y2 > text2_length
                  THEN /\ k2start' = k2start + 2
                       /\ k2' = k2 + 2
                       /\ UNCHANGED <<k2end, pc, result, d>>
                  ELSE IF ~front /\ BackOverlap(x2, k1_offset)
                  THEN /\ result' = SplitResult(v1[k1_offset],
                                       v_offset + v1[k1_offset] - k1_offset,
                                       "backward")
                       /\ pc' = "done"
                       /\ UNCHANGED <<k2, k2start, k2end, d>>
                  ELSE /\ k2' = k2 + 2
                       /\ UNCHANGED <<k2start, k2end, pc, result, d>>
     ELSE /\ pc' = "depth"
          /\ d' = d + 1
          /\ UNCHANGED <<k2, v2, k2start, k2end, result, oob>>
  /\ UNCHANGED <<text1, text2, deadline, called_at, clock, k1, v1, k1start, k1end, polls>>
  /\ UNCHANGED <<rvars, mvars, ovars>>

\* lines 153-158: the delete-node / insert-node pair
Fallback ==
  /\ pc = "fallback"
  /\ result' = NoSplitResult
  /\ pc' = "done"
  /\ UNCHANGED <<text1, text2, deadline, called_at, clock, d, k1, k2, v1, v2,
                 k1start, k1end, k2start, k2end, polls, oob>>
  /\ UNCHANGED <<rvars, mvars, ovars>>

BisectInit(t1, t2, dl, now) ==
  /\ text1 = t1 /\ text2 = t2 /\ deadline = dl /\ clock = now
  /\ called_at = now
  /\ pc = "start"
  /\ d = 0 /\ k1 = 0 /\ k2 = 0
  /\ v1 = <<>> /\ v2 = <<>>
  /\ k1start = 0 /\ k1end = 0 /\ k2start = 0 /\ k2end = 0
  /\ result = NoResult
  /\ polls = 0
  /\ oob = {}

\* ------------------------------------------------------- match_bitap
MaxTextLen == 3
MaxPatLen == 2
MaxDistance == 1

\* two units tell a unit of the pattern from one that is not
MatchUnits == {1, 2}
MatchTexts == UNION {[1..n -> MatchUnits] : n \in 0..MaxTextLen}
Patterns == UNION {[1..n -> MatchUnits] : n \in 0..MaxPatLen}
Locations == 0..(MaxTextLen + 1)

\* A double is modelled by the exact fraction <<numerator, denominator>>.
RLeq(a, b) == a[1] * b[2] <= b[1] * a[2]
RLess(a, b) == a[1] * b[2] < b[1] * a[2]
REq(a, b) == a[1] * b[2] = b[1] * a[2]
\* DMP_MIN(x, y) == (x > y ? y : x)
RMin(x, y) == IF RLess(y, x) THEN y ELSE x
Zero == <<0, 1>>
Half == <<1, 2>>
One == <<1, 1>>

Thresholds == {Zero, Half, One}
Distances == 0..MaxDistance
MaxBitsChoices == (MaxPatLen - 1)..MaxPatLen
Instances ==
  [match_threshold : Thresholds, match_distance : Distances,
   match_max_bits : MaxBitsChoices]

\* DMP_MAX, DMP_MIN on int
IMax(x, y) == IF x > y THEN x ELSE y
IMin(x, y) == IF x > y THEN y ELSE x
Abs(x) == IF x < 0 THEN -x ELSE x

\* An unsigned integer is modelled by the set of its 1 bits: 1 << k is {k},
\* & is \cap, | is \cup. The model's patterns have at most MaxPatLen units,
\* so no shift leaves the width of int or VALUE.
Bit(k) == {k}
\* (x << 1) | 1
ShiftOr1(x) == {b + 1 : b \in x} \cup {0}
\* (1 << n) - 1
LowBits(n) == 0..(n - 1)

\* DMP_HASH_KEY(hash, key): units are positive here
HashKey(size, key) == key % size

RECURSIVE ChainFind(_, _)
ChainFind(chain, key) ==
  IF chain = <<>> THEN <<>>
  ELSE IF Head(chain).key = key THEN <<Head(chain)>>
  ELSE ChainFind(Tail(chain), key)

\* hash_lookup: <<element>> or <<>> (NULL)
hash_lookup(hash, key) ==
  IF hash.count = 0 THEN <<>>
  ELSE ChainFind(hash.values[HashKey(hash.size, key)], key)

\* hash_insert: the new element becomes the head of its bucket's chain
hash_insert(hash, key, value) ==
  LET idx == HashKey(hash.size, key) IN
  [hash EXCEPT !.values[idx] = <<[key |-> key, value |-> value]>> \o @,
               !.count = @ + 1]

new_hash(size) ==
  [size |-> size, count |-> 0, values |-> [b \in 0..(size - 1) |-> <<>>]]

\* element->value |= val
RECURSIVE ChainOr(_, _, _)
ChainOr(chain, key, val) ==
  IF chain = <<>> THEN <<>>
  ELSE IF Head(chain).key = key
  THEN <<[key |-> key, value |-> Head(chain).value \cup val]>> \o Tail(chain)
  ELSE <<Head(chain)>> \o ChainOr(Tail(chain), key, val)

\* generate_pattern_hash, from pattern position p (0-based) on
RECURSIVE PatternHashFrom(_, _, _)
PatternHashFrom(hash, pat, p) ==
  IF p >= Len(pat) THEN hash
  ELSE LET val == Bit(Len(pat) - p - 1)
           key == pat[p + 1]
           idx == HashKey(hash.size, key)
       IN PatternHashFrom(
            IF hash_lookup(hash, key) # <<>>
            THEN [hash EXCEPT !.values[idx] = ChainOr(@, key, val)]
            ELSE hash_insert(hash, key, val),
            pat, p + 1)

generate_pattern_hash(pat) == PatternHashFrom(new_hash(Len(pat)), pat, 0)

\* element == NULL ? 0 : element->value
AlphaValue(hash, key) ==
  LET element == hash_lookup(hash, key) IN
  IF element = <<>> THEN {} ELSE element[1].value

\* match_bitap_score(start, end, pattern, location) with the global
\* dmp_match_distance
match_bitap_score(errors, end, psize, location, distance) ==
  LET proximity == Abs(location - end) IN
  IF distance = 0
  THEN (IF proximity = 0 THEN <<errors, psize>> ELSE One)
  ELSE <<errors * distance + proximity * psize, psize * distance>>

\* index_of's inner loop: the j it ends with at text position p
RECURSIVE IndexInner(_, _, _, _)
IndexInner(txt, pat, p, jj) ==
  IF jj < Len(pat) /\ p + jj < Len(txt) /\ txt[p + jj + 1] = pat[jj + 1]
  THEN IndexInner(txt, pat, p, jj + 1)
  ELSE jj

\* index_of's test after the inner loop: if(j > pattern.size)
IndexHit(jj, psize) == jj > psize

RECURSIVE IndexFrom(_, _, _)
IndexFrom(txt, pat, p) ==
  IF p >= Len(txt) THEN Qnil
  ELSE IF IndexHit(IndexInner(txt, pat, p, 0), Len(pat)) THEN p
  ELSE IndexFrom(txt, pat, p + 1)

index_of(txt, pat, pos) == IndexFrom(txt, pat, pos)

\* rindex_of's inner loop: the j it ends with at text position p
RECURSIVE RIndexInner(_, _, _, _, _)
RIndexInner(txt, pat, pos, p, jj) ==
  IF jj >= 0 /\ p - jj >= pos /\ txt[p - jj + 1] = pat[jj + 1]
  THEN RIndexInner(txt, pat, pos, p, jj - 1)
  ELSE jj

RECURSIVE RIndexFrom(_, _, _, _)
RIndexFrom(txt, pat, pos, p) ==
  IF p < pos THEN Qnil
  ELSE IF RIndexInner(txt, pat, pos, p, Len(pat) - 1) <= 0
  THEN p - (Len(pat) - 1)
  ELSE RIndexFrom(txt, pat, pos, p - 1)

rindex_of(txt, pat, pos) == RIndexFrom(txt, pat, pos, Len(txt) - 1)

max_rd == Len(pattern) + Len(text) + 2
\* 1 << (pattern.size - 1), as the bit it tests
match_mask == Len(pattern) - 1

\* the binary search of lines 254-264: the bin_mid it ends with
RECURSIVE BinSearch(_, _, _)
BinSearch(bmin, bmid, bmax) ==
  IF bmin < bmid
  THEN IF RLeq(match_bitap_score(i, loc + bmid, Len(pattern), loc,
                                  dmp_match_distance), score_threshold)
       THEN BinSearch(bmid, (bmax - bmid) \div 2 + bmid, bmax)
       ELSE BinSearch(bmin, (bmid - bmin) \div 2 + bmin, bmid)
  ELSE bmid

\* start = DMP_MAX(1, loc - bin_mid + 1) shifted by one
WindowStartLate(mid) == IMax(1, loc - mid + 2)

\* start = DMP_MAX(1, loc - bin_mid + 1)
WindowStart(mid) == IMax(1, loc - mid + 1)

\* finish = DMP_MIN(loc + bin_mid, (int)text.size) + pattern.size
WindowFinish(mid) == IMin(loc + mid, Len(text)) + Len(pattern)

\* text.chars[idx]: a unit of the text, or whatever lies behind it
TextRead(idx) ==
  IF idx >= 0 /\ idx < Len(text) THEN {text[idx + 1]} ELSE MatchUnits \cup {0}

\* the score test of line 297 without the test
AcceptsAny(tmp_score, threshold) == TRUE

\* line 297: if (tmp_score <= score_threshold)
Accepts(tmp_score, threshold) == RLeq(tmp_score, threshold)

\* pattern.size > dmp_max_bits + 1 for pattern.size > dmp_max_bits
TooLargeByTwo(psize, bits) == psize > bits + 1

\* line 224: pattern.size > dmp_max_bits
TooLarge(psize, bits) == psize > bits

NoMatchResult == [kind |-> "none", index |-> 0]

\* line 201: set_instance_vars(rb_self)
SetInstanceVars ==
  /\ mpc = "start"
  /\ dmp_match_threshold' = self.match_threshold
  /\ dmp_match_distance' = self.match_distance
  /\ dmp_max_bits' = self.match_max_bits
  /\ mpc' = "setup"
  /\ UNCHANGED <<self, text, pattern, loc, alpha, score_threshold, best_loc,
                 bin_max, bin_mid, i, j, start, finish, rd, last_rd,
                 mresult, toob>>
  /\ UNCHANGED <<bvars, rvars, ovars>>

\* lines 202-221: conversions, the hash table, the locals
MatchSetup ==
  /\ mpc = "setup"
  /\ alpha' = generate_pattern_hash(pattern)
  /\ score_threshold' = dmp_match_threshold
  /\ best_loc' = 0
  /\ bin_max' = max_rd - 2
  /\ bin_mid' = 0
  /\ mpc' = "check"
  /\ UNCHANGED <<self, gvars, text, pattern, loc, i, j, start, finish,
                 rd, last_rd, mresult, toob>>
  /\ UNCHANGED <<bvars, rvars, ovars>>

\* lines 224-228: the pattern size test
SizeCheck ==
  /\ mpc = "check"
  /\ IF TooLarge(Len(pattern), dmp_max_bits)
     THEN /\ mresult' = [kind |-> "raise", index |-> 0]
          /\ mpc' = "raised"
     ELSE /\ mpc' = "prescan"
          /\ UNCHANGED mresult
  /\ UNCHANGED <<self, gvars, text, pattern, loc, alpha, score_threshold,
                 best_loc, bin_max, bin_mid, i, j, start, finish, rd,
                 last_rd, toob>>
  /\ UNCHANGED <<bvars, rvars, ovars>>

\* lines 230-244: the exact searches before the main pass
PreScan ==
  /\ mpc = "prescan"
  /\ LET first == index_of(text, pattern, loc)
         score1 == match_bitap_score(0, first, Len(pattern), loc,
                                     dmp_match_distance)
         thr1 == RMin(score1, score_threshold)
         last == rindex_of(text, pattern, loc + Len(pattern))
         score2 == match_bitap_score(0, last, Len(pattern), loc,
                                     dmp_match_distance)
     IN score_threshold' =
          IF first # Qnil
          THEN (IF last # Qnil THEN RMin(score2, thr1) ELSE thr1)
          ELSE score_threshold
  /\ best_loc' = -1
  /\ i' = 0
  /\ mpc' = "level"
  /\ UNCHANGED <<self, gvars, text, pattern, loc, alpha, bin_max, bin_mid,
                 j, start, finish, rd, last_rd, mresult, toob>>
  /\ UNCHANGED <<bvars, rvars, ovars>>

\* lines 246-273: the loop test, the binary search, the window, rd
LevelBegin ==
  /\ mpc = "level"
  /\ IF i < Len(pattern)
     THEN LET mid == BinSearch(0, bin_max, bin_max) IN
          /\ bin_mid' = mid
          /\ bin_max' = mid
          /\ start' = WindowStart(mid)
          /\ finish' = WindowFinish(mid)
          /\ rd' = [q \in 0..(max_rd - 1) |->
                      IF q = WindowFinish(mid) + 1 THEN LowBits(i) ELSE {}]
          /\ j' = WindowFinish(mid)
          /\ mpc' = "scan"
     ELSE /\ mpc' = "return"
          /\ UNCHANGED <<bin_mid, bin_max, start, finish, rd, j>>
  /\ UNCHANGED <<self, gvars, text, pattern, loc, alpha, score_threshold,
                 best_loc, i, last_rd, mresult, toob>>
  /\ UNCHANGED <<bvars, rvars, ovars>>

\* lines 275-313: one text position of the window, or the end of the loop
ScanStep ==
  /\ mpc = "scan"
  /\ IF j >= start
     THEN \E unit \in TextRead(j - 1) :
          LET alpha_value == AlphaValue(alpha, unit)
              exact == ShiftOr1(rd[j + 1]) \cap alpha_value
              rdj == IF i = 0 THEN exact
                     ELSE exact \cup ShiftOr1(last_rd[j + 1] \cup last_rd[j])
                                \cup last_rd[j + 1]
              tmp_score == match_bitap_score(i, j - 1, Len(pattern), loc,
                                             dmp_match_distance)
          IN /\ rd' = [rd EXCEPT ![j] = rdj]
             /\ toob' = IF j - 1 >= Len(text) THEN toob \cup {j - 1} ELSE toob
             /\ IF match_mask \notin rdj
                THEN /\ j' = j - 1
                     /\ UNCHANGED <<score_threshold, best_loc, start, mpc>>
                ELSE IF Accepts(tmp_score, score_threshold)
                THEN /\ score_threshold' = tmp_score
                     /\ best_loc' = j - 1
                     /\ IF j - 1 > loc
                        THEN /\ start' = IMax(1, 2 * loc - (j - 1))
                             /\ j' = j - 1
                             /\ UNCHANGED mpc
                        ELSE /\ mpc' = "levelend"
                             /\ UNCHANGED <<start, j>>
                ELSE /\ j' = j - 1
                     /\ UNCHANGED <<score_threshold, best_loc, start, mpc>>
     ELSE /\ mpc' = "levelend"
          /\ UNCHANGED <<rd, toob, j, score_threshold, best_loc, start>>
  /\ UNCHANGED <<self, gvars, text, pattern, loc, alpha, bin_max, bin_mid,
                 i, finish, last_rd, mresult>>
  /\ UNCHANGED <<bvars, rvars, ovars>>

\* lines 315-322: the early exit, or the copy of rd and i++
LevelEnd ==
  /\ mpc = "levelend"
  /\ IF RLess(score_threshold,
              match_bitap_score(i + 1, loc, Len(pattern), loc,
                                dmp_match_distance))
     THEN /\ mpc' = "return"
          /\ UNCHANGED <<last_rd, i>>
     ELSE /\ last_rd' = rd
          /\ i' = i + 1
          /\ mpc' = "level"
  /\ UNCHANGED <<self, gvars, text, pattern, loc, alpha, score_threshold,
                 best_loc, bin_max, bin_mid, j, start, finish, rd, mresult,
                 toob>>
  /\ UNCHANGED <<bvars, rvars, ovars>>

\* lines 325-327: return INT2FIX(best_loc)
MatchReturn ==
  /\ mpc = "return"
  /\ mresult' = [kind |-> "index", index |-> best_loc]
  /\ mpc' = "done"
  /\ UNCHANGED <<self, gvars, text, pattern, loc, alpha, score_threshold,
                 best_loc, bin_max, bin_mid, i, j, start, finish, rd,
                 last_rd, toob>>
  /\ UNCHANGED <<bvars, rvars, ovars>>

MatchInit(inst, txt, pat, location) ==
  /\ self = inst
  /\ dmp_match_threshold = Zero /\ dmp_match_distance = 0 /\ dmp_max_bits = 0
  /\ text = txt /\ pattern = pat /\ loc = location
  /\ mpc = "start"
  /\ alpha = new_hash(0)
  /\ score_threshold = Zero /\ best_loc = 0 /\ bin_max = 0 /\ bin_mid = 0
  /\ i = 0 /\ j = 0 /\ start = 0 /\ finish = 0
  /\ rd = <<>> /\ last_rd = <<>>
  /\ mresult = NoMatchResult
  /\ toob = {}

MatchIdle ==
  /\ MatchInit([match_threshold |-> Zero, match_distance |-> 0,
                match_max_bits |-> 0], <<>>, <<>>, 0)

BisectIdle == BisectInit(<<>>, <<>>, NilDeadline, Qnil)

OtherIdle ==
  /\ oself = [match_threshold |-> Zero, match_distance |-> 0,
              match_max_bits |-> 0]
  /\ opc = "off"

RecIdle == rtop = <<>> /\ work = <<>> /\ total = 0 /\ rpc = "off"

\* one diff_bisect call on any pair of sequences, with no deadline
Init ==
  /\ \E p \in TextPairs : BisectInit(p[1], p[2], NilDeadline, Qnil)
  /\ RecIdle
  /\ MatchIdle
  /\ OtherIdle

Next == BisectEnter \/ DepthTest \/ ForwardStep \/ BackwardStep \/ Fallback

Spec == Init /\ [][Next]_vars

\* one diff_bisect call on any pair of sequences, deadline and clock
InitDeadline ==
  /\ \E p \in TextPairs, dl \in Deadlines, now \in Times :
       BisectInit(p[1], p[2], dl, now)
  /\ RecIdle
  /\ MatchIdle
  /\ OtherIdle

SpecDeadline == InitDeadline /\ [][Next]_vars

\* ------------------------------------- the recursion over diff_bisect
\* The caller of spec section 8: diff_bisect on a pair, then on
\* (A[0:x], B[0:y]) and (A[x:], B[y:]) for a split (x, y); a NoSplit counts
\* |text1| deletions and |text2| insertions.
MaxWork == 4

Prefix(s, n) == SubSeq(s, 1, n)
Suffix(s, n) == SubSeq(s, n + 1, Len(s))

SplitInRange ==
  /\ result.x >= 0 /\ result.x <= text1_length
  /\ result.y >= 0 /\ result.y <= text2_length

\* the next pending pair is handed to diff_bisect, with no deadline
RecCall ==
  /\ rpc = "idle"
  /\ work # <<>>
  /\ text1' = Head(work)[1]
  /\ text2' = Head(work)[2]
  /\ work' = Tail(work)
  /\ pc' = "start"
  /\ d' = 0 /\ k1' = 0 /\ k2' = 0
  /\ v1' = <<>> /\ v2' = <<>>
  /\ k1start' = 0 /\ k1end' = 0 /\ k2start' = 0 /\ k2end' = 0
  /\ result' = NoResult
  /\ polls' = 0
  /\ rpc' = "running"
  /\ UNCHANGED <<deadline, clock, called_at, oob, rtop, total>>
  /\ UNCHANGED <<mvars, ovars>>

\* diff_bisect_split: both halves become pending (the suffix pair first)
RecSplit ==
  /\ rpc = "running" /\ pc = "done" /\ result.kind = "split"
  /\ IF SplitInRange
     THEN /\ Len(work) + 2 <= MaxWork
          /\ work' = <<
               <<Suffix(text1, result.x), Suffix(text2, result.y)>>,
               <<Prefix(text1, result.x), Prefix(text2, result.y)>> >> \o work
          /\ rpc' = "idle"
     ELSE /\ rpc' = "invalid"
          /\ work' = work
  /\ UNCHANGED <<bvars, rtop, total>>
  /\ UNCHANGED <<mvars, ovars>>

\* new_delete_node(text1), new_insert_node(text2)
RecNoSplit ==
  /\ rpc = "running" /\ pc = "done" /\ result.kind = "nosplit"
  /\ total' = total + text1_length + text2_length
  /\ rpc' = "idle"
  /\ UNCHANGED <<bvars, rtop, work>>
  /\ UNCHANGED <<mvars, ovars>>

\* nothing is pending: the edit script is complete
RecDone ==
  /\ rpc = "idle" /\ work = <<>>
  /\ rpc' = "done"
  /\ UNCHANGED <<bvars, rtop, work, total>>
  /\ UNCHANGED <<mvars, ovars>>

RecInit ==
  /\ \E p \in TextPairs :
       /\ BisectInit(p[1], p[2], NilDeadline, Qnil)
       /\ rtop = p
  /\ work = <<>> /\ total = 0 /\ rpc = "running"
  /\ MatchIdle
  /\ OtherIdle

\* diff_bisect runs between RecCall and RecSplit or RecNoSplit
RecNext ==
  \/ BisectEnter \/ DepthTest \/ ForwardStep \/ BackwardStep \/ Fallback
  \/ RecCall \/ RecSplit \/ RecNoSplit \/ RecDone

\* one match_bitap call on any instance, text, pattern and location
InitMatch ==
  /\ \E inst \in Instances, txt \in MatchTexts, pat \in Patterns,
        location \in Locations : MatchInit(inst, txt, pat, location)
  /\ BisectIdle
  /\ RecIdle
  /\ OtherIdle

NextMatch ==
  \/ SetInstanceVars \/ MatchSetup \/ SizeCheck \/ PreScan
  \/ LevelBegin \/ ScanStep \/ LevelEnd \/ MatchReturn

SpecMatch == InitMatch /\ [][NextMatch]_vars

\* ---------------------------------- two match_bitap calls side by side
\* The second call is followed through its accesses of the three globals:
\* the stores of set_instance_vars and the reads of lines 209, 224 and 157.
\* Its locals are its own and are not kept.

\* line 201 of the second call: set_instance_vars(rb_self)
OtherSetInstanceVars ==
  /\ opc = "start"
  /\ dmp_match_threshold' = oself.match_threshold
  /\ dmp_match_distance' = oself.match_distance
  /\ dmp_max_bits' = oself.match_max_bits
  /\ opc' = "setup"
  /\ UNCHANGED <<lvars, oself>>
  /\ UNCHANGED <<bvars, rvars>>

\* line 209 of the second call: score_threshold = dmp_match_threshold
OtherSetup ==
  /\ opc = "setup"
  /\ opc' = "check"
  /\ UNCHANGED <<mvars, oself>>
  /\ UNCHANGED <<bvars, rvars>>

\* lines 224-228 of the second call, for a pattern of any size
OtherSizeCheck ==
  /\ opc = "check"
  /\ \E psize \in 0..MaxPatLen :
       opc' = IF TooLarge(psize, dmp_max_bits) THEN "raised" ELSE "score"
  /\ UNCHANGED <<mvars, oself>>
  /\ UNCHANGED <<bvars, rvars>>

\* a match_bitap_score call of the second call (it reads dmp_match_distance)
OtherScore ==
  /\ opc = "score"
  /\ opc' = "done"
  /\ UNCHANGED <<mvars, oself>>
  /\ UNCHANGED <<bvars, rvars>>

\* two calls on instances whose settings differ; the first call looks for
\* its pattern from the start of its text
InitConcurrent ==
  /\ \E inst \in Instances, oth \in Instances, txt \in MatchTexts,
        pat \in Patterns :
       /\ oth # inst
       /\ MatchInit(inst, txt, pat, 0)
       /\ oself = oth
  /\ opc = "start"
  /\ BisectIdle
  /\ RecIdle

NextConcurrent ==
  \/ SetInstanceVars \/ MatchSetup \/ SizeCheck \/ PreScan
  \/ LevelBegin \/ ScanStep \/ LevelEnd \/ MatchReturn
  \/ OtherSetInstanceVars \/ OtherSetup \/ OtherSizeCheck \/ OtherScore

SpecConcurrent == InitConcurrent /\ [][NextConcurrent]_vars

SpecRecurse == RecInit /\ [][RecNext]_vars /\ WF_vars(RecNext)

\* the Levenshtein distance (insertion, deletion, substitution)
Min2(a, b) == IF a <= b THEN a ELSE b
Levenshtein(a, b) ==
  LET L[p \in 0..Len(a), q \in 0..Len(b)] ==
        IF p = 0 THEN q
        ELSE IF q = 0 THEN p
        ELSE Min2(Min2(L[p - 1, q] + 1, L[p, q - 1] + 1),
                  L[p - 1, q - 1] + (IF a[p] = b[q] THEN 0 ELSE 1))
  IN L[Len(a), Len(b)]

\* the length of a shortest script of insertions and deletions only
InsDel(a, b) ==
  LET L[p \in 0..Len(a), q \in 0..Len(b)] ==
        IF p = 0 THEN q
        ELSE IF q = 0 THEN p
        ELSE IF a[p] = b[q] THEN L[p - 1, q - 1]
        ELSE Min2(L[p - 1, q] + 1, L[p, q - 1] + 1)
  IN L[Len(a), Len(b)]

\* ----------------------------------------------------------- claims
Common == \E p \in 1..Len(text1), q \in 1..Len(text2) : text1[p] = text2[q]
NoDeadline == deadline.nil
Returned == pc = "done"
IsSplit == result.kind = "split"
IsNoSplit == result.kind = "nosplit"
InBounds == oob = {}

C1_SplitInRangeInBounds == (NoDeadline /\ IsSplit /\ InBounds) => SplitInRange

\* C2: the recursion over diff_bisect, once exhausted, has counted an edit
\* script as long as the Levenshtein distance of the two sequences (stated
\* for the runs in which every vector access stayed inside v1 and v2).
C2_ScriptIsLevenshtein ==
  (rpc = "done" /\ InBounds) => total = Levenshtein(rtop[1], rtop[2])

\* C2: the recursion reaches exhaustion.
C2_Exhausts == <>(rpc = "done")

\* C2, what the split points do give while the accesses stay in bounds: a
\* split point lies on a shortest insert/delete script, and a NoSplit pair
\* has none shorter than |A| + |B|.
C2_SplitOnShortestScript ==
  (NoDeadline /\ Returned /\ InBounds) =>
    IF IsSplit
    THEN InsDel(text1, text2) =
           InsDel(Prefix(text1, result.x), Prefix(text2, result.y))
           + InsDel(Suffix(text1, result.x), Suffix(text2, result.y))
    ELSE InsDel(text1, text2) = text1_length + text2_length

\* a split point that hands the recursion the pair it came from
SplitRepeatsPair ==
  /\ Returned /\ IsSplit /\ InBounds /\ text1_length + text2_length > 0
  /\ \/ (result.x = text1_length /\ result.y = text2_length)
     \/ (result.x = 0 /\ result.y = 0)

C3_NoSplitOnlyWithoutCommonInBounds ==
  (NoDeadline /\ Returned /\ IsNoSplit /\ InBounds) => ~Common

C4_SelfSplitAtDepthZeroInBounds ==
  (NoDeadline /\ text1 = text2 /\ text1_length > 0 /\ InBounds) =>
    /\ d = 0 \/ Returned
    /\ Returned => /\ IsSplit /\ result.d = 0
                   /\ result.x = text1_length /\ result.y = text1_length

\* C5: a supplied deadline the clock had reached when diff_bisect was called
\* makes it return NoSplit with no diagonal examined: no scan step runs, no
\* split point is reported, the vectors stay as initialised; and the clock is
\* read once per depth level only.
C5_PastDeadlineNoSplit ==
  /\ (~deadline.nil /\ called_at >= deadline.to_i) =>
       /\ pc \notin {"fwd", "bwd"}
       /\ ~IsSplit
       /\ Returned => (IsNoSplit /\ d = 0 /\ v1 = InitVec /\ v2 = InitVec)
  /\ polls <= d + 1

\* C5, the part the code keeps: the clock is read at most once per depth
\* level, and a deadline whose to_i is not the nil number stops the search.
C5_PastDeadlineUnlessNilNumber ==
  /\ (~deadline.nil /\ deadline.to_i # Qnil /\ called_at >= deadline.to_i) =>
       /\ pc \notin {"fwd", "bwd"}
       /\ ~IsSplit
       /\ Returned => (IsNoSplit /\ d = 0 /\ v1 = InitVec /\ v2 = InitVec)
  /\ polls <= d + 1

\* C9: diff_bisect("cat", "cats") with no deadline reports the split point
\* (3, 3).
C9_CatSplit33 ==
  (NoDeadline /\ text1 = Cat /\ text2 = Cats /\ Returned) =>
    (IsSplit /\ result.x = 3 /\ result.y = 3)

\* C9 amended: diff_bisect("cat", "cats") with no deadline reports the split
\* point (3, 4), found by the forward half at depth d = 1: the prefix pair is
\* the whole of both sequences and the suffix pair is empty.
C9_CatSplit34 ==
  (NoDeadline /\ text1 = Cat /\ text2 = Cats /\ Returned) =>
    /\ IsSplit /\ result.x = 3 /\ result.y = 4
    /\ result.d = 1 /\ result.half = "forward"
    /\ Prefix(text1, result.x) = Cat /\ Prefix(text2, result.y) = Cats
    /\ Suffix(text1, result.x) = <<>> /\ Suffix(text2, result.y) = <<>>

C9_CatReturned ==
  NoDeadline /\ text1 = Cat /\ text2 = Cats /\ Returned /\ IsSplit

\* the pattern occurs verbatim in the text at index p (0-based)
Occurs(p) ==
  /\ p >= 0 /\ p + Len(pattern) <= Len(text)
  /\ \A q \in 1..Len(pattern) : text[p + q] = pattern[q]
MatchEnded == mpc \in {"done", "raised"}
Fits == Len(pattern) >= 1 /\ Len(pattern) <= self.match_max_bits
Configured == self.match_threshold
\* the call has read its threshold (line 209)
InCall == mpc \notin {"start", "setup"}

\* C6: match_bitap with threshold 0, a pattern of 1..maxBits units and a text
\* that holds the pattern verbatim at index location returns location,
\* whatever the distance.
C6_ExactAtLocation ==
  (REq(Configured, Zero) /\ Fits /\ Occurs(loc) /\ MatchEnded) =>
    mresult = [kind |-> "index", index |-> loc]

C6_ExactReturned ==
  /\ REq(Configured, Zero) /\ Fits /\ Occurs(loc) /\ mpc = "done"
  /\ self.match_distance = 0 /\ loc > 0

\* C7: a pattern longer than maxBits ends match_bitap in the PatternTooLarge
\* error, before the pre-scan and the main pass, and no index is returned.
C7_TooLargeRaises ==
  Len(pattern) > self.match_max_bits =>
    /\ mpc \in {"start", "setup", "check", "raised"}
    /\ mpc = "raised" => mresult.kind = "raise"
    /\ mresult.kind # "index"

C7_Raised ==
  mpc = "raised" /\ Len(pattern) > self.match_max_bits /\ Len(text) > 0

\* C8: within one match_bitap call the working threshold never increases
\* from one step to the next, and so never exceeds the configured threshold.
C8_ThresholdNeverIncreases ==
  /\ [][(InCall /\ InCall') => RLeq(score_threshold', score_threshold)]_vars
  /\ [](InCall => RLeq(score_threshold, Configured))

C8_ThresholdTightened ==
  /\ mpc = "levelend" /\ i = 1
  /\ RLess(score_threshold, Configured)

\* C10: when the main loop starts, the threshold is at most
\* min(configured threshold, score(0, p)) for the first exact occurrence p of
\* the pattern at or after location, and it is the configured threshold when
\* there is no exact occurrence.
FirstOccurrence(p) ==
  /\ p >= loc /\ Occurs(p)
  /\ \A q \in loc..(p - 1) : ~Occurs(q)
MainLoopStarts == mpc = "level" /\ i = 0
C10_PreScanTightens ==
  (MainLoopStarts /\ Len(pattern) >= 1) =>
    /\ \A p \in 0..Len(text) :
         FirstOccurrence(p) =>
           RLeq(score_threshold,
                RMin(match_bitap_score(0, p, Len(pattern), loc,
                                       self.match_distance), Configured))
    /\ (\A p \in loc..Len(text) : ~Occurs(p)) =>
         REq(score_threshold, Configured)

\* C10, what the code does: the pre-scan never changes the threshold.
C10_PreScanLeavesThreshold ==
  MainLoopStarts => score_threshold = Configured

\* a step of the first call that computes a score reads dmp_match_distance:
\* the binary search when it has a range to halve (line 256), the scan when
\* the mask bit is set (line 295), the end of a level (line 315)
ScoreStep ==
  \/ mpc = "level" /\ mpc' = "scan" /\ bin_max > 0
  \/ mpc = "scan" /\ j >= start /\ rd' # rd /\ match_mask \in rd'[j]
  \/ mpc = "levelend" /\ mpc' # "levelend"

\* C11: with two match_bitap calls interleaved, every read of a setting by a
\* call finds the setting of the instance the call was invoked on: the
\* threshold of line 209, the max bits of the size check, the distance of
\* every score.
C11_OwnSettings ==
  [][/\ (mpc = "setup" /\ mpc' = "check") =>
          dmp_match_threshold = self.match_threshold
     /\ (mpc = "check" /\ mpc' # "check") =>
          dmp_max_bits = self.match_max_bits
     /\ ScoreStep => dmp_match_distance = self.match_distance
     /\ (opc = "setup" /\ opc' = "check") =>
          dmp_match_threshold = oself.match_threshold
     /\ (opc = "check" /\ opc' # "check") =>
          dmp_max_bits = oself.match_max_bits
     /\ (opc = "score" /\ opc' = "done") =>
          dmp_match_distance = oself.match_distance]_vars

\* C11, what a call alone keeps: with no second call, every read finds the
\* settings of the call's instance.
C11_OwnSettingsAlone ==
  [][/\ (mpc = "setup" /\ mpc' = "check") =>
          dmp_match_threshold = self.match_threshold
     /\ (mpc = "check" /\ mpc' # "check") =>
          dmp_max_bits = self.match_max_bits
     /\ ScoreStep => dmp_match_distance = self.match_distance]_vars

\* C12: in diff_bisect every read and every write of v1 and v2 uses an index
\* idx with 0 <= idx < v_length, for all input sequences, those of total
\* length 0, 1 and 2 included.
C12_VectorInBounds == oob = {}

\* C12, where the code keeps it: with |A| + |B| >= 3 every access of v1 and
\* v2 is inside the vector.
C12_VectorInBoundsFromThree ==
  text1_length + text2_length >= 3 => oob = {}

\* C12, where it fails: every call with |A| + |B| <= 2 stores outside.
C12_SmallInputStoresOutside ==
  (text1_length + text2_length <= 2 /\ pc # "start") =>
    {<<"v1", v_offset + 1>>, <<"v2", v_offset + 1>>} \subseteq oob

\* the rd and last_rd indices of the main pass: rd[finish + 1] when a level
\* starts (line 273), then j and j + 1 for each j of the window (lines
\* 283-286)
RdInRange ==
  mpc = "scan" =>
    /\ finish + 1 >= 0 /\ finish + 1 < max_rd
    /\ j >= start => (j >= 0 /\ j + 1 < max_rd)

\* C13: in the main pass of match_bitap every text unit is read at an index
\* j - 1 with 0 <= j - 1 < text.length, and every access of rd and last_rd
\* uses an index in [0, pattern.length + text.length + 2), for patterns of
\* 1..max bits units.
C13_TextAndRdInRange ==
  (Len(pattern) >= 1 /\ Len(pattern) <= self.match_max_bits) =>
    (toob = {} /\ RdInRange)

\* C13, the part the code keeps: the rd and last_rd indices are in range,
\* and no text index is below 0 or beyond text.length + pattern.length - 1.
C13_RdInRangeTextOvershoot ==
  /\ RdInRange
  /\ \A idx \in toob : idx >= Len(text) /\ idx < Len(text) + Len(pattern)
  /\ (mpc = "scan" /\ j >= start) => j - 1 >= 0

====
